---- MODULE Spec2Model ----
(***************************************************************************)
(* Model of the iceberg.rest Cloudflare Worker (src/worker/index.ts): the  *)
(* encryption key store (KV), the credential codec, the sessions table     *)
(* (D1) and the login / proxy / logout handlers.  Every handler is a       *)
(* process that advances from one awaited I/O operation to the next; the   *)
(* handlers of concurrent requests interleave at those points.             *)
(***************************************************************************)
EXTENDS Integers, Sequences, FiniteSets, TLC

(* ---------------------------------------------------------------------- *)
(* Program constants                                                       *)
(* ---------------------------------------------------------------------- *)

\* const SESSION_DURATION = 24 * 60 * 60 * 1000
SESSION_DURATION == 24 * 60 * 60 * 1000

(* ---------------------------------------------------------------------- *)
(* Bounds of the model                                                     *)
(* ---------------------------------------------------------------------- *)

\* requests handled concurrently by the worker
MaxInFlight == 2
\* session ids generated over a run
MaxSessions == 2
\* advances of the wall clock over a run
MaxTicks == 1
\* requests received over a run
MaxRequests == 3

Slots == 1..MaxInFlight

\* the clock advances by a millisecond, by a session lifetime, or just past it
TickSteps == {1, SESSION_DURATION, SESSION_DURATION + 1}

(* ---------------------------------------------------------------------- *)
(* JavaScript values: an object is a function from property names to      *)
(* strings, an absent property is undefined, "" and undefined are falsy.   *)
(* ---------------------------------------------------------------------- *)

Has(o, f) == f \in DOMAIN o

\* !o.f is false
Truthy(o, f) == Has(o, f) /\ o[f] # ""

\* o.f || d
OrElse(o, f, d) == IF Truthy(o, f) THEN o[f] ELSE d

\* {}
EmptyObj == [f \in {} |-> ""]

\* `${o[f]}`
Field(o, f) == IF Has(o, f) THEN o[f] ELSE "undefined"

\* new URL(s) succeeds (it throws TypeError: Invalid URL otherwise)
IsUrl(s) ==
    \/ Len(s) > 8 /\ SubSeq(s, 1, 8) = "https://"
    \/ Len(s) > 7 /\ SubSeq(s, 1, 7) = "http://"

\* property order of the credential objects built by handleLogin
FieldOrder ==
    << "token", "oauthEndpoint", "clientId", "clientSecret", "scope",
       "awsAccessKey", "awsSecretKey", "awsRegion", "awsService" >>

\* JSON.stringify(o): the "key":"value" members of o in property order
JsonStringify(o) ==
    LET present == SelectSeq(FieldOrder, LAMBDA f : f \in DOMAIN o)
    IN  [i \in 1..Len(present) |-> << present[i], o[present[i]] >>]

\* JSON.parse(text)
JsonParse(text) ==
    [f \in {text[i][1] : i \in 1..Len(text)} |->
        LET i == CHOOSE j \in 1..Len(text) : text[j][1] = f IN text[i][2]]

(* ---------------------------------------------------------------------- *)
(* Credential codec                                                        *)
(* ---------------------------------------------------------------------- *)

\* the authentication tag of AES-GCM: it verifies for no other key, nonce
\* or ciphertext than those it was computed over
GcmTag(key, iv, body) == [tag |-> << key, iv, body >>]

\* crypto.subtle.encrypt({name: 'AES-GCM', iv}, key, data): the ciphertext
\* bytes of data followed by the authentication tag
AesGcmEncrypt(key, iv, data) ==
    LET body == [i \in 1..Len(data) |-> [byte |-> data[i]]]
    IN  Append(body, GcmTag(key, iv, body))

\* crypto.subtle.decrypt: throws (ok = FALSE) unless the tag verifies
AesGcmDecrypt(key, iv, box) ==
    IF /\ Len(box) >= 1
       /\ box[Len(box)] = GcmTag(key, iv, SubSeq(box, 1, Len(box) - 1))
    THEN [ok |-> TRUE, data |-> [i \in 1..(Len(box) - 1) |-> box[i].byte]]
    ELSE [ok |-> FALSE, data |-> << >>]

\* btoa(String.fromCharCode(...combined))
Btoa(bytes) == [base64 |-> bytes]

\* Uint8Array.from(atob(s), c => c.charCodeAt(0))
Atob(s) == s.base64

\* encryptToken with every nonce the same
encryptTokenFixedNonce(token, key, iv) ==
    Btoa(<< 0 >> \o AesGcmEncrypt(key, 0, token))

\* encryptToken(token, key) with the nonce iv drawn by crypto.getRandomValues
encryptToken(token, key, iv) ==
    LET encrypted == AesGcmEncrypt(key, iv, token)
        combined == << iv >> \o encrypted
    IN  Btoa(combined)

\* decryptToken that returns what it can read when the tag does not verify
decryptTokenUnverified(encryptedToken, key) ==
    LET data == Tail(Atob(encryptedToken))
    IN  [ok |-> TRUE,
         data |-> [i \in 1..(Len(data) - 1) |-> data[i].byte]]

\* decryptToken(encryptedToken, key); ok = FALSE when crypto.subtle.decrypt throws
decryptToken(encryptedToken, key) ==
    LET combined == Atob(encryptedToken)
        iv == Head(combined)
        data == Tail(combined)
    IN  AesGcmDecrypt(key, iv, data)

(* ---------------------------------------------------------------------- *)
(* Login payloads                                                          *)
(* ---------------------------------------------------------------------- *)

GoodEndpoint == "https://catalog.example"
BadEndpoint == "catalog.example"

\* request.json() of the login request: json = FALSE when parsing throws
LoginBodies ==
    { [json |-> FALSE, obj |-> EmptyObj],
      [json |-> TRUE, obj |-> [token |-> "abc123"]],
      [json |-> TRUE, obj |-> [endpoint |-> GoodEndpoint, token |-> "abc123"]],
      [json |-> TRUE, obj |-> [endpoint |-> GoodEndpoint, authType |-> "bearer",
                               token |-> "xyz789"]],
      [json |-> TRUE, obj |-> [endpoint |-> GoodEndpoint, authType |-> "bearer"]],
      [json |-> TRUE, obj |-> [endpoint |-> BadEndpoint, authType |-> "bearer"]],
      [json |-> TRUE, obj |-> [endpoint |-> GoodEndpoint, authType |-> "oauth2",
                               clientId |-> "client", clientSecret |-> "s3cr3t",
                               warehouse |-> "wh"]],
      [json |-> TRUE, obj |-> [endpoint |-> GoodEndpoint, authType |-> "oauth2",
                               clientId |-> "client", clientSecret |-> ""]],
      [json |-> TRUE, obj |-> [endpoint |-> GoodEndpoint, authType |-> "sigv4",
                               awsAccessKey |-> "AKIA", awsSecretKey |-> "aws-secret",
                               awsRegion |-> "us-east-1", awsService |-> "glue"]],
      [json |-> TRUE, obj |-> [endpoint |-> BadEndpoint, authType |-> "sigv4",
                               awsAccessKey |-> "AKIA", awsSecretKey |-> "aws-secret"]],
      [json |-> TRUE, obj |-> [endpoint |-> GoodEndpoint, authType |-> "basic",
                               token |-> "abc123"]] }

\* const { authType = 'bearer' } = body
AuthTypeOf(body) == IF Has(body, "authType") THEN body.authType ELSE "bearer"

\* the validation of handleLogin: the message of the 400 reply, "" when valid
LoginError(body) ==
    IF ~Truthy(body, "endpoint") THEN "Missing endpoint"
    ELSE IF AuthTypeOf(body) = "bearer" /\ ~Truthy(body, "token")
         THEN "Missing bearer token"
    ELSE IF AuthTypeOf(body) = "oauth2"
            /\ (~Truthy(body, "clientId") \/ ~Truthy(body, "clientSecret"))
         THEN "Missing OAuth2 client ID or secret"
    ELSE IF AuthTypeOf(body) = "sigv4"
            /\ (~Truthy(body, "awsAccessKey") \/ ~Truthy(body, "awsSecretKey")
                \/ ~Truthy(body, "awsRegion"))
         THEN "Missing AWS credentials"
    ELSE ""

\* the credentials object handleLogin builds from a valid payload
LoginCredentials(body) ==
    CASE AuthTypeOf(body) = "bearer" -> [token |-> body.token]
      [] AuthTypeOf(body) = "oauth2" ->
            [oauthEndpoint |-> OrElse(body, "oauthEndpoint",
                                      body.endpoint \o "/v1/oauth/tokens"),
             clientId |-> body.clientId,
             clientSecret |-> body.clientSecret,
             scope |-> OrElse(body, "oauthScope", "PRINCIPAL_ROLE:ALL")]
      [] AuthTypeOf(body) = "sigv4" ->
            [awsAccessKey |-> body.awsAccessKey,
             awsSecretKey |-> body.awsSecretKey,
             awsRegion |-> body.awsRegion,
             awsService |-> OrElse(body, "awsService", "s3tables")]
      [] OTHER -> EmptyObj

(* ---------------------------------------------------------------------- *)
(* Replies                                                                 *)
(* ---------------------------------------------------------------------- *)

NoReply == [status |-> 0]

ErrorReply(status, error) == [status |-> status, error |-> error]

\* an exception that escapes the handler: the runtime answers for the worker
UnhandledException == [status |-> 500, error |-> "Worker threw exception"]

\* the catch block of handleIcebergProxy
ProxyErrorReply(message) ==
    [status |-> 502, error |-> "Proxy error", message |-> message]

(* ---------------------------------------------------------------------- *)
(* State                                                                   *)
(* ---------------------------------------------------------------------- *)

VARIABLES
    started,    \* requests received so far
    now,        \* Date.now()
    ticks,      \* advances of the clock so far
    kv,         \* env.TOKENS 'encryption_key'; "" when the key is absent
    nextKey,    \* keys generated by crypto.subtle.generateKey so far
    nextSid,    \* session ids generated so far
    nextIv,     \* nonces drawn so far
    sessions,   \* the sessions table: session_id -> row
    reqs,       \* the requests in flight: slot -> handler state
    issued,     \* session ids a client received from a login reply
    catalog_usage, \* D1 table catalog_usage: the rows in order of their id
    supplied,   \* history: session_id -> what its login stored, and the key
                \* store at that instant
    loggedOut,  \* history: session ids given to a logout
    calc,       \* the function under evaluation, its inputs and its results
    client      \* an IcebergClient in a browser, with what it sent and reported

\* the state of the worker and its stores
worker == << started, now, ticks, kv, nextKey, nextSid, nextIv, sessions, reqs,
             issued, supplied, loggedOut, catalog_usage >>

vars == << started, now, ticks, kv, nextKey, nextSid, nextIv, sessions, reqs,
           issued, supplied, loggedOut, catalog_usage, calc, client >>

\* nothing is under evaluation
NoCalc == [kind |-> "none"]

\* new IcebergClient(sessionId, warehouse, onApiCall) in a page that holds a
\* session: no prefix, no configPromise, nothing called, sent or reported
NewClient ==
    [sessionId |-> "sid1",
     warehouse |-> "wh",
     onApiCall |-> TRUE,
     prefix |-> "",
     configPromise |-> "none",
     calls |-> << >>,
     sent |-> << >>,
     reported |-> << >>,
     sessionStorage |-> "session",
     location |-> "/catalog"]

Idle == [kind |-> "idle", pc |-> "idle"]

EmptyTable == [s \in {} |-> EmptyObj]

Init ==
    /\ started = 0
    /\ now = 0
    /\ ticks = 0
    /\ kv = ""
    /\ nextKey = 0
    /\ nextSid = 0
    /\ nextIv = 0
    /\ sessions = EmptyTable
    /\ reqs = [r \in Slots |-> Idle]
    /\ issued = {}
    /\ supplied = EmptyTable
    /\ loggedOut = {}
    /\ catalog_usage = << >>
    /\ calc = NoCalc
    /\ client = NewClient

\* the handler in slot r moves to state s
Goto(r, s) == reqs' = [reqs EXCEPT ![r] = s]

\* a slot is free once its handler has replied; a new request is handled in
\* the first free slot
Free(r) == reqs[r].pc \in {"idle", "done"}
FreeSlot(r) == Free(r) /\ \A q \in Slots : q < r => ~Free(q)

Finish(r, reply) == Goto(r, [reqs[r] EXCEPT !.pc = "done", !.reply = reply])

(* ---------------------------------------------------------------------- *)
(* Clock                                                                   *)
(* ---------------------------------------------------------------------- *)

Tick ==
    /\ ticks < MaxTicks
    /\ \E d \in TickSteps : now' = now + d
    /\ ticks' = ticks + 1
    /\ UNCHANGED << calc, client, started, kv, nextKey, nextSid, nextIv, sessions, reqs, issued,
                    supplied, loggedOut, catalog_usage >>

(* ---------------------------------------------------------------------- *)
(* Encryption key store                                                    *)
(* ---------------------------------------------------------------------- *)

\* the step of the handler that follows getEncryptionKey
AfterKey(r) == IF reqs[r].kind = "login" THEN "insert" ELSE "decrypt"

\* a fresh key of crypto.subtle.generateKey
GenerateKey(n) == "key" \o ToString(n)

\* getEncryptionKey up to its KV read: import the stored key, or generate one
GetEncryptionKey(r) ==
    /\ reqs[r].pc = "getKey"
    /\ IF kv = ""
       THEN /\ nextKey' = nextKey + 1
            /\ Goto(r, [reqs[r] EXCEPT !.pc = "putKey",
                                       !.key = GenerateKey(nextKey + 1)])
       ELSE /\ nextKey' = nextKey
            /\ Goto(r, [reqs[r] EXCEPT !.pc = AfterKey(r), !.key = kv])
    /\ UNCHANGED << calc, client, started, now, ticks, kv, nextSid, nextIv, sessions, issued,
                    supplied, loggedOut, catalog_usage >>

\* the value env.TOKENS.put leaves under 'encryption_key'
KvPut(old, new) == new

\* getEncryptionKey from its KV write: persist the generated key, return it
PutEncryptionKey(r) ==
    /\ reqs[r].pc = "putKey"
    /\ kv' = KvPut(kv, reqs[r].key)
    /\ Goto(r, [reqs[r] EXCEPT !.pc = AfterKey(r)])
    /\ UNCHANGED << calc, client, started, now, ticks, nextKey, nextSid, nextIv, sessions, issued,
                    supplied, loggedOut, catalog_usage >>

(* ---------------------------------------------------------------------- *)
(* Login                                                                   *)
(* ---------------------------------------------------------------------- *)

\* generateSessionId(): a fresh 256-bit random id
GenerateSessionId(n) == "sid" \o ToString(n)

\* the reply of handleLogin to a payload it rejects
LoginRejection(b) ==
    IF ~b.json THEN ErrorReply(400, "Invalid JSON in request body")
    ELSE IF LoginError(b.obj) = "Missing endpoint"
         THEN ErrorReply(400, "Missing endpoint")
    \* new URL(endpoint).hostname throws on the way to trackAnalytics, and
    \* again in the catch block
    ELSE IF ~IsUrl(b.obj.endpoint) THEN UnhandledException
    ELSE ErrorReply(400, LoginError(b.obj))

\* handleLogin up to getEncryptionKey: parse, validate, generate the id
LoginRequest(r, b) ==
    /\ FreeSlot(r)
    /\ started < MaxRequests
    /\ started' = started + 1
    /\ IF ~b.json \/ LoginError(b.obj) # ""
       THEN /\ Goto(r, [kind |-> "login", pc |-> "done", body |-> b,
                        sessionId |-> "", key |-> "",
                        reply |-> LoginRejection(b)])
            /\ nextSid' = nextSid
       ELSE /\ nextSid < MaxSessions
            /\ nextSid' = nextSid + 1
            /\ Goto(r, [kind |-> "login", pc |-> "getKey", body |-> b,
                        sessionId |-> GenerateSessionId(nextSid + 1),
                        key |-> "", reply |-> NoReply])
    /\ UNCHANGED << calc, client, now, ticks, kv, nextKey, nextIv, sessions, issued,
                    supplied, loggedOut, catalog_usage >>

\* variant of the row with last_used_at left at zero
SessionRowNeverUsed(body, encrypted, t) ==
    [auth_type |-> AuthTypeOf(body),
     encrypted_credentials |-> encrypted,
     endpoint |-> body.endpoint,
     warehouse |-> OrElse(body, "warehouse", ""),
     created_at |-> t,
     expires_at |-> t + SESSION_DURATION,
     last_used_at |-> 0]

\* the row handleLogin inserts
SessionRow(body, encrypted, t) ==
    [auth_type |-> AuthTypeOf(body),
     encrypted_credentials |-> encrypted,
     endpoint |-> body.endpoint,
     warehouse |-> OrElse(body, "warehouse", ""),
     created_at |-> t,
     expires_at |-> t + SESSION_DURATION,
     last_used_at |-> t]

\* INSERT INTO sessions
InsertRow(table, id, row) ==
    [s \in DOMAIN table \cup {id} |-> IF s = id THEN row ELSE table[s]]

\* handleLogin from encryptToken to its reply
\* the reply of a login with a message that names what was stored
LoginReplyEchoing(r, row) ==
    [status |-> 200, sessionId |-> reqs[r].sessionId,
     expiresAt |-> row.expires_at,
     message |-> "stored " \o Field(reqs[r].body.obj, "token")]

\* the reply of a login that stored its session
LoginReply(r, row) ==
    [status |-> 200, sessionId |-> reqs[r].sessionId,
     expiresAt |-> row.expires_at]

LoginInsert(r) ==
    /\ reqs[r].kind = "login"
    /\ reqs[r].pc = "insert"
    /\ LET body == reqs[r].body.obj
           sid == reqs[r].sessionId
           credentials == LoginCredentials(body)
           encrypted == encryptToken(JsonStringify(credentials), reqs[r].key,
                                     nextIv + 1)
           row == SessionRow(body, encrypted, now)
       IN  /\ nextIv' = nextIv + 1
           /\ sessions' = InsertRow(sessions, sid, row)
           /\ supplied' = InsertRow(supplied, sid,
                                    [credentials |-> credentials, kv |-> kv,
                                     created_at |-> row.created_at,
                                     expires_at |-> row.expires_at])
           \* trackAnalytics(..., {endpoint_domain: new URL(endpoint).hostname})
           /\ IF IsUrl(body.endpoint)
              THEN /\ Finish(r, LoginReply(r, row))
                   /\ issued' = issued \cup {sid}
              ELSE /\ Finish(r, UnhandledException)
                   /\ issued' = issued
    /\ UNCHANGED << calc, client, started, now, ticks, kv, nextKey, nextSid, loggedOut,
                    catalog_usage >>

(* ---------------------------------------------------------------------- *)
(* Session store                                                           *)
(* ---------------------------------------------------------------------- *)

\* variants of the SELECT: expiry compared with >=, and no expiry condition
SelectSessionInclusive(table, id, t) ==
    id \in DOMAIN table /\ table[id].expires_at >= t

SelectSessionAnyAge(table, id, t) == id \in DOMAIN table

\* SELECT * FROM sessions WHERE session_id = ? AND expires_at > ?
SelectSession(table, id, t) == id \in DOMAIN table /\ table[id].expires_at > t

\* variant of the UPDATE: a sliding expiry, renewed on use
TouchSessionRenewing(table, id, t) ==
    [s \in DOMAIN table |->
        IF s = id
        THEN [table[s] EXCEPT !.last_used_at = t,
                              !.expires_at = t + SESSION_DURATION]
        ELSE table[s]]

\* variant of the UPDATE without its WHERE clause
TouchSessionAll(table, id, t) ==
    [s \in DOMAIN table |-> [table[s] EXCEPT !.last_used_at = t]]

\* variant of the UPDATE as an upsert: INSERT ... ON CONFLICT DO UPDATE
TouchSessionUpsert(table, id, t) ==
    [s \in DOMAIN table \cup {id} |->
        IF s # id THEN table[s]
        ELSE IF s \in DOMAIN table THEN [table[s] EXCEPT !.last_used_at = t]
        ELSE [auth_type |-> "bearer",
              encrypted_credentials |-> Btoa(<< >>),
              endpoint |-> "", warehouse |-> "",
              created_at |-> t, expires_at |-> t + SESSION_DURATION,
              last_used_at |-> t]]

\* UPDATE sessions SET last_used_at = ? WHERE session_id = ?
TouchSession(table, id, t) ==
    [s \in DOMAIN table |->
        IF s = id THEN [table[s] EXCEPT !.last_used_at = t] ELSE table[s]]

\* variant of the DELETE: the statement is prepared and never run
DeleteSessionNotRun(table, id) == table

\* DELETE FROM sessions WHERE session_id = ?
DeleteSession(table, id) == [s \in DOMAIN table \ {id} |-> table[s]]

(* ---------------------------------------------------------------------- *)
(* Outbound authentication                                                 *)
(* ---------------------------------------------------------------------- *)

\* crypto.subtle.digest('SHA-256', ...) and HMAC-SHA256, as injective digests
sha256(message) == [sha256 |-> message]
hmac(key, message) == [hmac |-> << key, message >>]

\* getSignatureKey(key, dateStamp, regionName, serviceName)
getSignatureKey(key, dateStamp, regionName, serviceName) ==
    LET kDate == hmac("AWS4" \o key, dateStamp)
        kRegion == hmac(kDate, regionName)
        kService == hmac(kRegion, serviceName)
    IN  hmac(kService, "aws4_request")

\* now.toISOString() cut to the day, and to the second
DateStamp(t) == t \div 86400000
AmzDate(t) == t \div 1000

\* s.charAt(i - 1)
CharAt(s, i) == SubSeq(s, i, i)

\* s.indexOf(c) + 1 for a character c; 0 when s has no c
IndexOf(s, c) ==
    IF \E i \in 1..Len(s) : CharAt(s, i) = c
    THEN CHOOSE i \in 1..Len(s) :
            CharAt(s, i) = c /\ \A j \in 1..(i - 1) : CharAt(s, j) # c
    ELSE 0

\* s.split(sep) for a character sep
RECURSIVE Split(_, _)
Split(s, sep) ==
    LET i == IndexOf(s, sep)
    IN  IF i = 0 THEN << s >>
        ELSE << SubSeq(s, 1, i - 1) >> \o Split(SubSeq(s, i + 1, Len(s)), sep)

\* parts.join(sep)
RECURSIVE Join(_, _)
Join(parts, sep) ==
    IF Len(parts) = 0 THEN ""
    ELSE IF Len(parts) = 1 THEN parts[1]
    ELSE parts[1] \o sep \o Join(Tail(parts), sep)

Digits == "0123456789"
UpperCase == "ABCDEFGHIJKLMNOPQRSTUVWXYZ"
LowerCase == "abcdefghijklmnopqrstuvwxyz"

IsAlnum(c) == IndexOf(Digits \o UpperCase \o LowerCase, c) # 0

\* the characters encodeURIComponent leaves as they are, besides A-Z a-z 0-9
JsUnreservedMarks == "-_.!~*'()"

\* the %XX form of the characters of the model that are not unreserved
PercentCode(c) ==
    CASE c = " " -> "%20"
      [] c = "!" -> "%21"
      [] c = "%" -> "%25"
      [] c = "&" -> "%26"
      [] c = "'" -> "%27"
      [] c = "(" -> "%28"
      [] c = ")" -> "%29"
      [] c = "*" -> "%2A"
      [] c = "+" -> "%2B"
      [] c = "/" -> "%2F"
      [] c = ":" -> "%3A"
      [] c = "=" -> "%3D"
      [] c = "?" -> "%3F"
      [] OTHER -> "%7F"

\* percent-encoding of s that leaves alphanumerics and the marks alone
RECURSIVE PercentEncode(_, _)
PercentEncode(s, marks) ==
    IF s = "" THEN ""
    ELSE LET c == CharAt(s, 1)
         IN  (IF IsAlnum(c) \/ IndexOf(marks, c) # 0 THEN c ELSE PercentCode(c))
             \o PercentEncode(SubSeq(s, 2, Len(s)), marks)

encodeURIComponent(s) == PercentEncode(s, JsUnreservedMarks)

\* the character a %XX sequence of the model stands for
PercentDecoded(code) ==
    CASE code = "%20" -> " "
      [] code = "%21" -> "!"
      [] code = "%25" -> "%"
      [] code = "%26" -> "&"
      [] code = "%27" -> "'"
      [] code = "%28" -> "("
      [] code = "%29" -> ")"
      [] code = "%2A" -> "*"
      [] code = "%2B" -> "+"
      [] code = "%2F" -> "/"
      [] code = "%3A" -> ":"
      [] code = "%3D" -> "="
      [] code = "%3F" -> "?"
      [] OTHER -> code

\* the decoding URLSearchParams applies to a name or a value
RECURSIVE FormDecode(_)
FormDecode(s) ==
    IF s = "" THEN ""
    ELSE IF CharAt(s, 1) = "+" THEN " " \o FormDecode(SubSeq(s, 2, Len(s)))
    ELSE IF CharAt(s, 1) = "%" /\ Len(s) >= 3
    THEN PercentDecoded(SubSeq(s, 1, 3)) \o FormDecode(SubSeq(s, 4, Len(s)))
    ELSE CharAt(s, 1) \o FormDecode(SubSeq(s, 2, Len(s)))

\* Array.from(new URLSearchParams(search).entries())
URLSearchParams(search) ==
    LET query == IF search # "" /\ CharAt(search, 1) = "?"
                 THEN SubSeq(search, 2, Len(search)) ELSE search
        fields == SelectSeq(Split(query, "&"), LAMBDA f : f # "")
        Entry(f) == LET i == IndexOf(f, "=")
                    IN  IF i = 0 THEN << FormDecode(f), "" >>
                        ELSE << FormDecode(SubSeq(f, 1, i - 1)),
                                FormDecode(SubSeq(f, i + 1, Len(f))) >>
    IN  [i \in 1..Len(fields) |-> Entry(fields[i])]

\* the rank of a character in the root collation: digits before letters,
\* letters in alphabetical order whatever their case, marks before both
CollationRank(c) ==
    IF IndexOf(Digits, c) # 0 THEN IndexOf(Digits, c)
    ELSE IF IndexOf(LowerCase, c) # 0 THEN 10 + IndexOf(LowerCase, c)
    ELSE IF IndexOf(UpperCase, c) # 0 THEN 10 + IndexOf(UpperCase, c)
    ELSE 0

\* a.localeCompare(b) < 0 at the first level: by letters, case ignored
RECURSIVE PrimaryLess(_, _)
PrimaryLess(a, b) ==
    IF a = "" THEN b # ""
    ELSE IF b = "" THEN FALSE
    ELSE IF CollationRank(CharAt(a, 1)) # CollationRank(CharAt(b, 1))
    THEN CollationRank(CharAt(a, 1)) < CollationRank(CharAt(b, 1))
    ELSE PrimaryLess(SubSeq(a, 2, Len(a)), SubSeq(b, 2, Len(b)))

\* the tie-break of localeCompare between strings with the same letters:
\* at the first difference the lower-case letter comes first
RECURSIVE CaseLess(_, _)
CaseLess(a, b) ==
    IF a = "" \/ b = "" THEN FALSE
    ELSE IF CharAt(a, 1) # CharAt(b, 1)
    THEN IndexOf(LowerCase, CharAt(a, 1)) # 0
    ELSE CaseLess(SubSeq(a, 2, Len(a)), SubSeq(b, 2, Len(b)))

\* a.localeCompare(b) < 0
LocaleLess(a, b) ==
    \/ PrimaryLess(a, b)
    \/ ~PrimaryLess(b, a) /\ CaseLess(a, b)

\* entries.sort(([a], [b]) => a.localeCompare(b)): by name, entries with
\* equal names in their order
RECURSIVE SortEntries(_)
SortEntries(entries) ==
    IF Len(entries) <= 1 THEN entries
    ELSE LET rest == SortEntries(Tail(entries))
             e == Head(entries)
             before == SelectSeq(rest, LAMBDA x : LocaleLess(x[1], e[1]))
             after == SelectSeq(rest, LAMBDA x : ~LocaleLess(x[1], e[1]))
         IN  before \o << e >> \o after

\* new URL(url): host, pathname and search of an http(s) URL
ParseUrl(url) ==
    LET rest == IF SubSeq(url, 1, 8) = "https://"
                THEN SubSeq(url, 9, Len(url))
                ELSE SubSeq(url, 8, Len(url))
        q == IndexOf(rest, "?")
        beforeQuery == IF q = 0 THEN rest ELSE SubSeq(rest, 1, q - 1)
        query == IF q = 0 THEN "" ELSE SubSeq(rest, q, Len(rest))
        p == IndexOf(beforeQuery, "/")
    IN  [host |-> IF p = 0 THEN beforeQuery ELSE SubSeq(beforeQuery, 1, p - 1),
         pathname |-> IF p = 0 THEN "/"
                      ELSE SubSeq(beforeQuery, p, Len(beforeQuery)),
         search |-> IF query = "?" THEN "" ELSE query]

\* new URL(endpoint).host
UrlHost(endpoint) == ParseUrl(endpoint).host

\* the canonical query string of signAwsRequest
CanonicalQueryString(search) ==
    LET sortedParams == SortEntries(URLSearchParams(search))
    IN  Join([i \in 1..Len(sortedParams) |->
                 encodeURIComponent(sortedParams[i][1]) \o "="
                     \o encodeURIComponent(sortedParams[i][2])], "&")

\* signAwsRequest(request, credentials, requestBody) at instant t, for a
\* request with the given method and url
signAwsRequest(method, requestUrl, credentials, requestBody, t) ==
    LET url == ParseUrl(requestUrl)
        service == OrElse(credentials, "awsService", "s3tables")
        dateStamp == DateStamp(t)
        amzDate == AmzDate(t)
        canonicalUri == url.pathname
        canonicalQueryString == CanonicalQueryString(url.search)
        payloadHash == sha256(requestBody)
        canonicalHeaders == << << "host", url.host >>,
                               << "x-amz-content-sha256", payloadHash >>,
                               << "x-amz-date", amzDate >> >>
        signedHeaders == "host;x-amz-content-sha256;x-amz-date"
        canonicalRequest == << method, canonicalUri, canonicalQueryString,
                               canonicalHeaders, signedHeaders, payloadHash >>
        credentialScope == << dateStamp, credentials.awsRegion, service,
                              "aws4_request" >>
        stringToSign == << "AWS4-HMAC-SHA256", amzDate, credentialScope,
                           sha256(canonicalRequest) >>
        signingKey == getSignatureKey(credentials.awsSecretKey, dateStamp,
                                      credentials.awsRegion, service)
        signature == hmac(signingKey, stringToSign)
    IN  [Authorization |-> [algorithm |-> "AWS4-HMAC-SHA256",
                            Credential |-> << credentials.awsAccessKey >>
                                           \o credentialScope,
                            SignedHeaders |-> signedHeaders,
                            Signature |-> signature],
         Host |-> url.host,
         xAmzDate |-> amzDate,
         xAmzContentSha256 |-> payloadHash]

\* the headers with the token alone as Authorization
BearerHeadersBare(token) == [Authorization |-> token]

\* the headers of the bearer and oauth2 branches
BearerHeaders(token) == [Authorization |-> "Bearer " \o token]

\* the fetch of getOAuth2Token
TokenRequest(credentials) ==
    [to |-> "token",
     method |-> "POST",
     url |-> credentials.oauthEndpoint,
     headers |-> [Authorization |->
                     "Basic " \o credentials.clientId \o ":"
                              \o credentials.clientSecret],
     body |-> "grant_type=client_credentials&scope="
                 \o OrElse(credentials, "scope", "PRINCIPAL_ROLE:ALL")]

\* a fetch that sends the request a second time
FetchTwice(out, request) == Append(Append(out, request), request)

\* fetch(request): one more call leaves the worker
Fetch(out, request) == Append(out, request)

\* response.ok
ResponseOk(status) == status >= 200 /\ status <= 299

\* what the token endpoint does with the exchange (status 0: the fetch
\* rejected)
TokenResponses ==
    { [status |-> 200, statusText |-> "OK", access_token |-> "access-token-1"],
      [status |-> 200, statusText |-> "OK", access_token |-> "access-token-2"],
      [status |-> 401, statusText |-> "Unauthorized"],
      [status |-> 0, statusText |-> ""] }

\* getOAuth2Token without the test of response.ok
getOAuth2TokenUnchecked(response) ==
    IF response.status = 0
    THEN [ok |-> FALSE, message |-> "fetch failed"]
    ELSE [ok |-> TRUE, access_token |-> Field(response, "access_token")]

\* getOAuth2Token from the answer of the token endpoint: the token it
\* returns, or the message of the error it throws
getOAuth2Token(response) ==
    IF response.status = 0
    THEN [ok |-> FALSE, message |-> "fetch failed"]
    ELSE IF ~ResponseOk(response.status)
    THEN [ok |-> FALSE,
          message |-> "OAuth2 token exchange failed: " \o response.statusText]
    ELSE [ok |-> TRUE, access_token |-> Field(response, "access_token")]

\* the branches with oauth2 sessions sent down the bearer branch
AuthBranchWithoutExchange(authType) ==
    IF authType = "bearer" \/ authType = "oauth2" THEN "bearer"
    ELSE IF authType = "sigv4" THEN "sigv4"
    ELSE "unsupported"

\* the branch handleIcebergProxy takes for session.authType
AuthBranch(authType) ==
    IF authType = "bearer" THEN "bearer"
    ELSE IF authType = "oauth2" THEN "oauth2"
    ELSE IF authType = "sigv4" THEN "sigv4"
    ELSE "unsupported"

\* the fetch of proxyRequest
CatalogRequest(method, targetUrl, headers, requestBody) ==
    [to |-> "catalog", method |-> method, url |-> targetUrl,
     headers |-> headers, body |-> requestBody]

(* ---------------------------------------------------------------------- *)
(* Proxy                                                                   *)
(* ---------------------------------------------------------------------- *)

\* a session id no login ever generated
ForgedId == "forged"

\* the X-Session-ID header of a request; "" when the header is absent
SessionHeaders == {"", ForgedId} \cup issued

Methods == {"GET", "POST"}

\* the inbound request of the model: /api/iceberg/v1/namespaces, no query
InboundPath == "/api/iceberg/v1/namespaces"
InboundSearch == ""
InboundBody == "{}"

\* url.pathname.replace('/api/iceberg', '') of a path routed to the proxy
StripPrefix(pathname) == SubSeq(pathname, Len("/api/iceberg") + 1, Len(pathname))

\* request.method !== 'GET' && request.method !== 'HEAD' ? await request.text() : ''
ReadBodyOf(method, body) == IF method # "GET" /\ method # "HEAD" THEN body ELSE ""

ReadBody(method) == ReadBodyOf(method, InboundBody)

\* `${session.endpoint}${path}${url.search}`
TargetUrlOf(endpoint, pathname, search) ==
    endpoint \o StripPrefix(pathname) \o search

TargetUrl(row) == TargetUrlOf(row.endpoint, InboundPath, InboundSearch)

\* the sigv4 branch with the signature computed over no body
SigV4ForwardBodyUnsigned(method, pathname, search, body, endpoint, credentials, t) ==
    LET targetUrl == TargetUrlOf(endpoint, pathname, search)
        requestBody == ReadBodyOf(method, body)
    IN  CatalogRequest(method, targetUrl,
            signAwsRequest(method, targetUrl, credentials, "", t), requestBody)

\* the sigv4 branch of handleIcebergProxy: targetRequest, its signed
\* headers and the proxyRequest built with them
SigV4Forward(method, pathname, search, body, endpoint, credentials, t) ==
    LET targetUrl == TargetUrlOf(endpoint, pathname, search)
        requestBody == ReadBodyOf(method, body)
    IN  CatalogRequest(method, targetUrl,
            signAwsRequest(method, targetUrl, credentials, requestBody, t),
            requestBody)

\* history of a request: what its X-Session-ID named when it arrived
SessionState(id) ==
    IF id = "" THEN "no header"
    ELSE IF id \notin DOMAIN sessions THEN "unknown"
    ELSE IF sessions[id].expires_at <= now THEN "expired"
    ELSE "live"

\* handleIcebergProxy up to the SELECT of getSession
ProxyRequest(r, hdr, method) ==
    /\ FreeSlot(r)
    /\ started < MaxRequests
    /\ started' = started + 1
    /\ LET req == [kind |-> "proxy", pc |-> "done", hdr |-> hdr,
                   seen |-> SessionState(hdr),
                   startTime |-> now,
                   method |-> method, row |-> EmptyObj, key |-> "",
                   credentials |-> EmptyObj, out |-> << >>,
                   exchange |-> NoReply, response |-> NoReply,
                   reply |-> NoReply]
       IN  IF hdr = ""
           THEN Goto(r, [req EXCEPT
                    !.reply = ErrorReply(401, "Missing X-Session-ID header")])
           ELSE IF SelectSession(sessions, hdr, now)
           THEN Goto(r, [req EXCEPT !.pc = "getKey", !.row = sessions[hdr]])
           ELSE Goto(r, [req EXCEPT
                    !.reply = ErrorReply(401, "Invalid or expired session")])
    /\ UNCHANGED << calc, client, now, ticks, kv, nextKey, nextSid, nextIv, sessions, issued,
                    supplied, loggedOut, catalog_usage >>

\* the request handleIcebergProxy forwards for a session, with its headers
Forward(r, headers) ==
    LET q == reqs[r]
    IN  CatalogRequest(q.method, TargetUrl(q.row), headers, ReadBody(q.method))

\* handleIcebergProxy from decryptToken to its first outbound fetch
ProxyDecrypt(r) ==
    /\ reqs[r].kind = "proxy"
    /\ reqs[r].pc = "decrypt"
    /\ LET q == reqs[r]
           dec == decryptToken(q.row.encrypted_credentials, q.key)
           credentials == JsonParse(dec.data)
           s == [q EXCEPT !.credentials = credentials]
       IN  IF ~dec.ok
           THEN /\ Finish(r, ProxyErrorReply("Decryption failed"))
                /\ sessions' = sessions
           ELSE /\ sessions' = TouchSession(sessions, q.hdr, now)
                /\ IF AuthBranch(q.row.auth_type) = "unsupported"
                   THEN Goto(r, [s EXCEPT !.pc = "done",
                            !.reply = ProxyErrorReply("Unsupported auth type: "
                                                      \o q.row.auth_type)])
                   ELSE IF AuthBranch(q.row.auth_type) = "oauth2"
                   THEN IF IsUrl(credentials.oauthEndpoint)
                        THEN Goto(r, [s EXCEPT !.pc = "awaitToken",
                                 !.out = Fetch(q.out, TokenRequest(credentials))])
                        ELSE Goto(r, [s EXCEPT !.pc = "done",
                                 !.reply = ProxyErrorReply("Invalid URL")])
                   ELSE IF ~IsUrl(TargetUrl(q.row))
                   THEN Goto(r, [s EXCEPT !.pc = "done",
                            !.reply = ProxyErrorReply("Invalid URL")])
                   ELSE IF AuthBranch(q.row.auth_type) = "bearer"
                   THEN Goto(r, [s EXCEPT !.pc = "awaitUpstream",
                            !.out = Fetch(q.out,
                                Forward(r, BearerHeaders(Field(credentials,
                                                        "token"))))])
                   ELSE Goto(r, [s EXCEPT !.pc = "awaitUpstream",
                            !.out = Fetch(q.out,
                                SigV4Forward(q.method, InboundPath, InboundSearch,
                                    InboundBody, q.row.endpoint, credentials,
                                    now))])
    /\ UNCHANGED << calc, client, started, now, ticks, kv, nextKey, nextSid, nextIv, issued,
                    supplied, loggedOut, catalog_usage >>

\* handleIcebergProxy from the answer of the token endpoint to the forward
TokenResponse(r, resp) ==
    /\ reqs[r].kind = "proxy"
    /\ reqs[r].pc = "awaitToken"
    /\ LET q == [reqs[r] EXCEPT !.exchange = resp]
           token == getOAuth2Token(resp)
       IN  IF ~token.ok
           THEN Goto(r, [q EXCEPT !.pc = "done",
                                  !.reply = ProxyErrorReply(token.message)])
           ELSE IF ~IsUrl(TargetUrl(q.row))
           THEN Goto(r, [q EXCEPT !.pc = "done",
                                  !.reply = ProxyErrorReply("Invalid URL")])
           ELSE Goto(r, [q EXCEPT !.pc = "awaitUpstream",
                    !.out = Fetch(q.out,
                                Forward(r, BearerHeaders(token.access_token)))])
    /\ UNCHANGED << calc, client, started, now, ticks, kv, nextKey, nextSid, nextIv, sessions, issued,
                    supplied, loggedOut, catalog_usage >>

\* what the catalog does with the forwarded request
UpstreamResponses ==
    { [status |-> 200, body |-> "namespaces"],
      [status |-> 401, body |-> "upstream: bad credentials"],
      [status |-> 500, body |-> "upstream: internal error"],
      [status |-> 0, body |-> ""] }

\* String.prototype.includes
Includes(s, sub) ==
    \E i \in 1..(Len(s) - Len(sub) + 1) : SubSeq(s, i, i + Len(sub) - 1) = sub

\* the action recorded for a path
UsageAction(path) ==
    IF Includes(path, "/namespaces") THEN "list_namespaces"
    ELSE IF Includes(path, "/tables") THEN "list_tables"
    ELSE IF Includes(path, "/v1/") THEN "load_table"
    ELSE "other"

\* the row handleIcebergProxy inserts into catalog_usage
UsageRow(q, resp, t) ==
    [session_id |-> q.hdr,
     endpoint_domain |-> UrlHost(q.row.endpoint),
     timestamp |-> t,
     action |-> UsageAction(StripPrefix(InboundPath)),
     success |-> IF ResponseOk(resp.status) THEN 1 ELSE 0,
     response_time_ms |-> t - q.startTime]

\* whether the INSERT into catalog_usage runs or rejects
UsageOutcomes == {"recorded", "rejected"}

\* handleIcebergProxy from the answer of the catalog (status 0: the fetch
\* rejected) through the INSERT into catalog_usage to its reply
UpstreamResponse(r, resp, usage) ==
    /\ reqs[r].kind = "proxy"
    /\ reqs[r].pc = "awaitUpstream"
    /\ LET q == [reqs[r] EXCEPT !.response = resp]
       IN  IF resp.status = 0
           THEN /\ usage = "recorded"
                /\ Goto(r, [q EXCEPT !.pc = "done",
                                     !.reply = ProxyErrorReply("fetch failed")])
                /\ catalog_usage' = catalog_usage
           ELSE IF usage = "rejected"
           THEN /\ Goto(r, [q EXCEPT !.pc = "done",
                                     !.reply = ProxyErrorReply("D1_ERROR")])
                /\ catalog_usage' = catalog_usage
           ELSE /\ Goto(r, [q EXCEPT !.pc = "done",
                                     !.reply = [status |-> resp.status,
                                                body |-> resp.body]])
                /\ catalog_usage' = Append(catalog_usage, UsageRow(q, resp, now))
    /\ UNCHANGED << calc, client, started, now, ticks, kv, nextKey, nextSid, nextIv, sessions, issued,
                    supplied, loggedOut >>

(* ---------------------------------------------------------------------- *)
(* Logout                                                                  *)
(* ---------------------------------------------------------------------- *)

\* handleLogout
Logout(r, hdr) ==
    /\ FreeSlot(r)
    /\ started < MaxRequests
    /\ started' = started + 1
    /\ sessions' = IF hdr # "" THEN DeleteSession(sessions, hdr) ELSE sessions
    /\ loggedOut' = IF hdr # "" THEN loggedOut \cup {hdr} ELSE loggedOut
    /\ Goto(r, [kind |-> "logout", pc |-> "done", hdr |-> hdr,
                \* history: the proxy handlers between the SELECT and the
                \* UPDATE of getSession on this session at the DELETE
                overtook |-> {q \in Slots : /\ reqs[q].kind = "proxy"
                                            /\ reqs[q].hdr = hdr
                                            /\ reqs[q].pc \in {"getKey", "putKey",
                                                               "decrypt"}},
                reply |-> [status |-> 200, success |-> TRUE]])
    /\ UNCHANGED << calc, client, now, ticks, kv, nextKey, nextSid, nextIv, issued, supplied,
                    catalog_usage >>

Next ==
    \/ Tick
    \/ \E r \in Slots : \E b \in LoginBodies : LoginRequest(r, b)
    \/ \E r \in Slots : GetEncryptionKey(r)
    \/ \E r \in Slots : PutEncryptionKey(r)
    \/ \E r \in Slots : LoginInsert(r)
    \/ \E r \in Slots : \E hdr \in SessionHeaders : \E m \in Methods :
            ProxyRequest(r, hdr, m)
    \/ \E r \in Slots : ProxyDecrypt(r)
    \/ \E r \in Slots : \E resp \in TokenResponses : TokenResponse(r, resp)
    \/ \E r \in Slots : \E resp \in UpstreamResponses :
            \E usage \in UsageOutcomes : UpstreamResponse(r, resp, usage)
    \/ \E r \in Slots : \E hdr \in SessionHeaders : Logout(r, hdr)

Spec == Init /\ [][Next]_vars

\* The runtime runs every handler on: a handler that waits for the key
\* store or the database gets its answer and takes its next step. Nothing
\* makes the token endpoint or the catalog answer a fetch.
Fairness ==
    \A r \in Slots :
        /\ WF_vars(GetEncryptionKey(r))
        /\ WF_vars(PutEncryptionKey(r))
        /\ WF_vars(LoginInsert(r))
        /\ WF_vars(ProxyDecrypt(r))

LiveSpec == Init /\ [][Next]_vars /\ Fairness

(* ---------------------------------------------------------------------- *)
(* The codec and the signer on their own                                   *)
(* ---------------------------------------------------------------------- *)

\* nonces crypto.getRandomValues may return
MaxNonce == 2

\* the credential records handleLogin seals: JSON.stringify(credentials) of
\* every valid login payload
Plaintexts ==
    {JsonStringify(LoginCredentials(b.obj)) :
        b \in {x \in LoginBodies : x.json /\ LoginError(x.obj) = ""}}

\* keys getEncryptionKey may return
Keys == {GenerateKey(1), GenerateKey(2)}

\* encryptToken(token, key) with the nonce iv
Encrypt(token, key, iv) ==
    /\ calc.kind = "none"
    /\ calc' = [kind |-> "sealed", token |-> token, key |-> key, iv |-> iv,
                stored |-> encryptToken(token, key, iv), altered |-> 0]
    /\ UNCHANGED << worker, client >>

\* the bytes with the one at position i altered: the nonce, a byte of the
\* ciphertext or the tag
AlterByte(bytes, i) ==
    [bytes EXCEPT ![i] =
        IF i = 1 THEN @ + 1
        ELSE IF i = Len(bytes)
        THEN [tag |-> << @.tag[1] \o "~", @.tag[2], @.tag[3] >>]
        ELSE [byte |-> << @.byte[1] \o "~", @.byte[2] >>]]

\* one byte of the stored ciphertext changes in the database
Tamper(i) ==
    /\ calc.kind = "sealed"
    /\ calc.altered = 0
    /\ i \in 1..Len(Atob(calc.stored))
    /\ calc' = [calc EXCEPT !.stored = Btoa(AlterByte(Atob(calc.stored), i)),
                            !.altered = i]
    /\ UNCHANGED << worker, client >>

\* decryptToken(stored, key)
Decrypt(key) ==
    /\ calc.kind = "sealed"
    /\ calc' = [kind |-> "opened", token |-> calc.token, key |-> calc.key,
                iv |-> calc.iv, stored |-> calc.stored,
                altered |-> calc.altered, with |-> key,
                result |-> decryptToken(calc.stored, key)]
    /\ UNCHANGED << worker, client >>

\* inbound requests of a sigv4 session
SignMethods == {"GET", "HEAD", "POST"}
SignPaths == {"/api/iceberg/v1/namespaces", "/api/iceberg/v1/namespaces/a%1Fb"}
SignSearches == {"", "?pageSize=10", "?pageToken=t1&pageSize=10", "?B=1&a=2",
                 "?filter=a*"}
SignBodies == {"", "{}"}
SignEndpoints == {GoodEndpoint, GoodEndpoint \o "/iceberg"}
SignCredentials ==
    { [awsAccessKey |-> "AKIA", awsSecretKey |-> "aws-secret",
       awsRegion |-> "us-east-1", awsService |-> "glue"],
      [awsAccessKey |-> "AKIA", awsSecretKey |-> "aws-secret",
       awsRegion |-> "us-east-1", awsService |-> "s3tables"] }
SignInstants == {0, SESSION_DURATION + 1000}

\* the sigv4 branch of handleIcebergProxy for an inbound request, at instant t
Sign(method, pathname, search, body, endpoint, credentials, t) ==
    /\ calc.kind = "none"
    /\ calc' = [kind |-> "signed", method |-> method, pathname |-> pathname,
                search |-> search, body |-> body, endpoint |-> endpoint,
                credentials |-> credentials, t |-> t,
                request |-> SigV4Forward(method, pathname, search, body,
                                         endpoint, credentials, t)]
    /\ UNCHANGED << worker, client >>

\* the same request goes through the sigv4 branch once more
SignAgain ==
    /\ calc.kind = "signed"
    /\ calc' = [calc EXCEPT !.kind = "signed twice",
                   !.request = SigV4Forward(calc.method, calc.pathname,
                                   calc.search, calc.body, calc.endpoint,
                                   calc.credentials, calc.t)]
    /\ UNCHANGED << worker, client >>

PureNext ==
    \/ \E token \in Plaintexts : \E key \in Keys : \E iv \in 1..MaxNonce :
            Encrypt(token, key, iv)
    \/ \E i \in 1..(Len(FieldOrder) + 2) : Tamper(i)
    \/ \E key \in Keys : Decrypt(key)
    \/ \E method \in SignMethods : \E pathname \in SignPaths :
       \E search \in SignSearches : \E body \in SignBodies :
       \E endpoint \in SignEndpoints : \E credentials \in SignCredentials :
       \E t \in SignInstants :
            Sign(method, pathname, search, body, endpoint, credentials, t)
    \/ SignAgain

PureSpec == Init /\ [][PureNext]_vars

(* ====================================================================== *)
(* The browser client: IcebergClient of src/lib/iceberg/client.ts          *)
(* ====================================================================== *)

\* calls the page makes on one client instance
MaxCalls == 3

\* paths the page asks for
ClientPaths == {"/v1/namespaces", "/v1/namespaces?parent=a"}

\* a response: status 0 stands for a fetch that rejects (no response at all),
\* text is response.text(), json tells whether response.json() parses, and
\* config is the parsed body
Response(status, text, json, config) ==
    [status |-> status, text |-> text, json |-> json, config |-> config]

Config(overrides, defaults) == [overrides |-> overrides, defaults |-> defaults]

NoBody == Config(EmptyObj, EmptyObj)

\* what the proxy may answer to a call other than the config load
CatalogAnswers ==
    { Response(200, "{}", TRUE, NoBody),
      Response(401, "Invalid or expired session", FALSE, NoBody),
      Response(403, "Forbidden", FALSE, NoBody),
      Response(500, "Session expired", FALSE, NoBody),
      Response(0, "", FALSE, NoBody) }

\* what it may answer to /v1/config
ConfigAnswers ==
    CatalogAnswers \cup
    { Response(200, "<html>", FALSE, NoBody),
      Response(404, "Not Found", FALSE, NoBody),
      Response(200, "{}", TRUE, Config([prefix |-> "ns"], EmptyObj)),
      Response(200, "{}", TRUE, Config(EmptyObj, [prefix |-> "wh"])),
      Response(200, "{}", TRUE, Config([prefix |-> "a%2Fb"], [prefix |-> "ns"])) }

\* response.ok of the client's fetch
IsOk(resp) == resp.status \in 200..299

\* decodeURIComponent(s) of a well-formed s
RECURSIVE decodeURIComponent(_)
decodeURIComponent(s) ==
    IF s = "" THEN ""
    ELSE IF CharAt(s, 1) = "%" /\ Len(s) >= 3
    THEN PercentDecoded(SubSeq(s, 1, 3)) \o decodeURIComponent(SubSeq(s, 4, Len(s)))
    ELSE CharAt(s, 1) \o decodeURIComponent(SubSeq(s, 2, Len(s)))

\* s.startsWith(p)
StartsWith(s, p) == Len(s) >= Len(p) /\ SubSeq(s, 1, Len(p)) = p

\* ensureConfigLoaded that looks at the prefix only
ensureConfigLoadedUnmemoized(c) ==
    IF c.prefix # "" THEN "return" ELSE "load"

\* ensureConfigLoaded up to its await: return at once, start loadConfig and
\* await it, or await the configPromise there is
ensureConfigLoaded(c) ==
    IF c.prefix # "" THEN "return"
    ELSE IF c.configPromise = "none" THEN "load"
    ELSE "await"

\* '/v1/config' + (this.warehouse ? `?warehouse=${this.warehouse}` : '')
ConfigPath(c) ==
    "/v1/config" \o (IF c.warehouse # "" THEN "?warehouse=" \o c.warehouse ELSE "")

\* buildUrl(path)
buildUrl(c, path) ==
    LET prefixed == IF /\ c.prefix # ""
                       /\ StartsWith(path, "/v1/")
                       /\ c.prefix # c.warehouse
                    THEN "/v1/" \o c.prefix \o SubSeq(path, 4, Len(path))
                    ELSE path
    IN  IF c.warehouse # ""
        THEN prefixed \o (IF Includes(prefixed, "?") THEN "&" ELSE "?")
                      \o "warehouse=" \o c.warehouse
        ELSE prefixed

\* a call in progress: by names the method that made it, pc its position;
\* waited tells that it awaited a pending configPromise, answer is the
\* response it received
Call(by, path, pc, endpoint, waited) ==
    [by |-> by, path |-> path, pc |-> pc, endpoint |-> endpoint,
     waited |-> waited, answer |-> Response(0, "", FALSE, NoBody)]

\* fetchRaw(path) of call i up to its await fetch(url): the request leaves;
\* settled records the configPromise at that moment
SendRaw(c, i, path) ==
    [c EXCEPT !.sent = Append(@, [call |-> i,
                                  url |-> "/api/iceberg" \o path,
                                  sessionId |-> c.sessionId,
                                  settled |-> c.configPromise])]

\* the Error fetchRaw throws for a response that is not ok
ErrorMessage(resp) ==
    IF resp.status = 401 THEN "Session expired. Please log in again."
    ELSE IF resp.status = 403
    THEN "Authentication failed (403 Forbidden). Your credentials are not valid"
    ELSE IF resp.status = 404
    THEN "Cannot reach proxy server. Original error: 404 " \o resp.text
    ELSE "Iceberg API error (" \o ToString(resp.status) \o "): " \o resp.text

\* the catch block reporting every error again
AlreadyRecordedNever(message) == FALSE

\* error instanceof Error && error.message.includes('Session expired')
AlreadyRecorded(message) == Includes(message, "Session expired")

\* the statuses fetchRaw hands to onApiCall for a response, in order
Reports(c, resp) ==
    IF ~c.onApiCall THEN << >>
    ELSE IF resp.status = 0 THEN << "error" >>
    ELSE IF ~IsOk(resp)
    THEN << "error" >> \o (IF AlreadyRecorded(ErrorMessage(resp))
                           THEN << >> ELSE << "error" >>)
    ELSE << "success" >>

\* fetchRaw of call i from the answer of fetch(url) to its return or throw
Receive(c, i, resp) ==
    LET statuses == Reports(c, resp)
        reports == [k \in 1..Len(statuses) |->
                       [call |-> i, endpoint |-> c.calls[i].endpoint,
                        status |-> statuses[k]]]
        expired == resp.status = 401
    IN  [c EXCEPT !.reported = @ \o reports,
                  !.sessionStorage = IF expired THEN "" ELSE @,
                  !.location = IF expired THEN "/" ELSE @,
                  !.calls[i].pc = "done",
                  !.calls[i].answer = resp]

\* fetchRaw resolves with the parsed body
Resolves(resp) == IsOk(resp) /\ resp.json

\* config.overrides?.prefix || config.defaults?.prefix
PrefixOf(config) ==
    IF Truthy(config.overrides, "prefix") THEN config.overrides.prefix
    ELSE OrElse(config.defaults, "prefix", "")

\* the calls that await the configPromise go on: buildUrl, then fetchRaw
RECURSIVE Resume(_, _)
Resume(c, i) ==
    IF i > Len(c.calls) THEN c
    ELSE IF c.calls[i].pc # "awaitConfig" THEN Resume(c, i + 1)
    ELSE LET fullPath == buildUrl(c, c.calls[i].path)
             d == [c EXCEPT !.calls[i].pc = "awaitResponse",
                            !.calls[i].endpoint = fullPath]
         IN  Resume(SendRaw(d, i, fullPath), i + 1)

\* calls made by the page, as opposed to the config load of the client
PageCalls(c) == {i \in 1..Len(c.calls) : c.calls[i].by # "loadConfig"}

\* this.fetch(path): ensureConfigLoaded, buildUrl, fetchRaw
ClientFetch(path) ==
    /\ Cardinality(PageCalls(client)) < MaxCalls
    /\ LET todo == ensureConfigLoaded(client)
           n == Len(client.calls)
       IN  IF todo = "return" \/ (todo = "await" /\ client.configPromise = "settled")
           THEN LET fullPath == buildUrl(client, path)
                    c == [client EXCEPT !.calls =
                            Append(@, Call("fetch", path, "awaitResponse",
                                           fullPath, FALSE))]
                IN  client' = SendRaw(c, n + 1, fullPath)
           ELSE IF todo = "load"
           THEN LET c == [client EXCEPT
                            !.configPromise = "pending",
                            !.calls = @ \o
                               << Call("loadConfig", ConfigPath(client),
                                       "awaitResponse", ConfigPath(client), FALSE),
                                  Call("fetch", path, "awaitConfig", "", TRUE) >>]
                IN  client' = SendRaw(c, n + 1, ConfigPath(client))
           ELSE client' = [client EXCEPT !.calls =
                              Append(@, Call("fetch", path, "awaitConfig", "", TRUE))]
    /\ UNCHANGED << worker, calc >>

\* getConfig(): fetchRaw of the config path, without ensureConfigLoaded
GetConfig ==
    /\ Cardinality(PageCalls(client)) < MaxCalls
    /\ LET c == [client EXCEPT !.calls =
                    Append(@, Call("getConfig", ConfigPath(client),
                                   "awaitResponse", ConfigPath(client), FALSE))]
       IN  client' = SendRaw(c, Len(client.calls) + 1, ConfigPath(client))
    /\ UNCHANGED << worker, calc >>

\* the answer to /v1/config arrives: fetchRaw ends, loadConfig takes the
\* prefix or catches the error, the configPromise settles and the calls
\* that await it go on
ConfigResponse(i, resp) ==
    /\ i \in 1..Len(client.calls)
    /\ client.calls[i].by = "loadConfig"
    /\ client.calls[i].pc = "awaitResponse"
    /\ LET c == Receive(client, i, resp)
           prefix == IF Resolves(resp) THEN PrefixOf(resp.config) ELSE ""
           d == [c EXCEPT !.prefix = IF prefix # ""
                                     THEN decodeURIComponent(prefix) ELSE @,
                          !.configPromise = "settled"]
       IN  client' = Resume(d, 1)
    /\ UNCHANGED << worker, calc >>

\* the answer to a call of the page arrives
CallResponse(i, resp) ==
    /\ i \in 1..Len(client.calls)
    /\ client.calls[i].by # "loadConfig"
    /\ client.calls[i].pc = "awaitResponse"
    /\ client' = Receive(client, i, resp)
    /\ UNCHANGED << worker, calc >>

ClientNext ==
    \/ \E path \in ClientPaths : ClientFetch(path)
    \/ GetConfig
    \/ \E i \in 1..(MaxCalls + 1) : \E resp \in ConfigAnswers : ConfigResponse(i, resp)
    \/ \E i \in 1..(MaxCalls + 1) : \E resp \in CatalogAnswers : CallResponse(i, resp)

ClientSpec == Init /\ [][ClientNext]_vars

(* ====================================================================== *)
(* Properties                                                              *)
(* ====================================================================== *)

\* this step is the arrival of a request of the given kind, handled in slot r
Arrives(r, kind) ==
    /\ started' # started
    /\ FreeSlot(r)
    /\ reqs'[r].kind = kind

InvalidSessionReply == [status |-> 401, error |-> "Invalid or expired session"]

\* the handler in slot r is a proxy handler whose lookup returned a row
FoundSession(q) == q.kind = "proxy" /\ q.row # EmptyObj

(* ---------------------------------------------------------------------- *)
\* C1: a proxy call with the id of a session whose expires_at <= now (at
\* now = expires_at too) ends exactly as a call with an id that was never
\* created: the 401 'Invalid or expired session' reply, with no row and no
\* credentials in the handler and nothing sent.
ExpiredIsUnknown ==
    \A r \in Slots :
        (reqs[r].kind = "proxy" /\ reqs[r].seen \in {"expired", "unknown"})
        => /\ reqs[r].pc = "done"
           /\ reqs[r].reply = InvalidSessionReply
           /\ reqs[r].row = EmptyObj
           /\ reqs[r].credentials = EmptyObj
           /\ reqs[r].out = << >>

\* a proxy call was answered at the very instant its session expired
ExpiredIsUnknownWitness ==
    \E r \in Slots :
        /\ reqs[r].kind = "proxy"
        /\ reqs[r].pc = "done"
        /\ reqs[r].seen = "expired"
        /\ reqs[r].hdr \in DOMAIN sessions
        /\ sessions[reqs[r].hdr].expires_at = now

(* ---------------------------------------------------------------------- *)
\* C2: a proxy request whose X-Session-ID is absent, unknown or expired is
\* answered 401 and sends nothing; every outbound call belongs to a request
\* whose header named an existing, unexpired session.
NoOutboundWithoutSession ==
    \A r \in Slots :
        reqs[r].kind = "proxy"
        => /\ reqs[r].seen # "live"
              => /\ reqs[r].pc = "done"
                 /\ reqs[r].reply.status = 401
                 /\ reqs[r].out = << >>
           /\ reqs[r].out # << >> => reqs[r].seen = "live"

\* one request was refused for its missing header while another, with a
\* session, has a call outstanding
NoOutboundWithoutSessionWitness ==
    \E r, q \in Slots :
        /\ reqs[r].kind = "proxy"
        /\ reqs[r].seen = "no header"
        /\ reqs[r].reply.status = 401
        /\ reqs[r].out = << >>
        /\ reqs[q].kind = "proxy"
        /\ reqs[q].out # << >>

(* ---------------------------------------------------------------------- *)
\* C3: a get that follows a login, with the key store as the login left it,
\* decrypts the row and holds the credential record the login built.
LoginGetRoundTrip ==
    \A r \in Slots :
        (/\ FoundSession(reqs[r])
         /\ reqs[r].pc \in {"awaitToken", "awaitUpstream", "done"}
         /\ reqs[r].key = supplied[reqs[r].hdr].kv)
        => /\ reqs[r].reply # ProxyErrorReply("Decryption failed")
           /\ reqs[r].credentials = supplied[reqs[r].hdr].credentials

(* ---------------------------------------------------------------------- *)
\* C4: every session row holds ciphertext produced under the key that is
\* persisted in the key store, so it decrypts under that key.
RowsUnderCurrentKey ==
    \A id \in DOMAIN sessions :
        decryptToken(sessions[id].encrypted_credentials, kv).ok

(* ---------------------------------------------------------------------- *)
\* C5: the persisted key, once written, is never replaced, and every call of
\* getEncryptionKey returns the key that is persisted.
KeyWrittenOnce ==
    [][/\ kv # "" => kv' = kv
       /\ \A r \in Slots :
            (/\ reqs[r].pc \in {"getKey", "putKey"}
             /\ reqs'[r].pc \in {"insert", "decrypt"})
            => reqs'[r].key = kv']_vars

(* ---------------------------------------------------------------------- *)
\* C6: when the credentials of a found session fail to decrypt, the reply is
\* the 401 of an unknown session and nothing is sent.
DecryptFailureIsInvalidSession ==
    \A r \in Slots :
        (/\ FoundSession(reqs[r])
         /\ reqs[r].pc = "done"
         /\ ~decryptToken(reqs[r].row.encrypted_credentials, reqs[r].key).ok)
        => /\ reqs[r].reply = InvalidSessionReply
           /\ reqs[r].out = << >>

(* ---------------------------------------------------------------------- *)
\* the property names of the credential record of each scheme
SchemeShape(scheme) ==
    CASE scheme = "bearer" -> {"token"}
      [] scheme = "oauth2" -> {"oauthEndpoint", "clientId", "clientSecret", "scope"}
      [] scheme = "sigv4" -> {"awsAccessKey", "awsSecretKey", "awsRegion", "awsService"}
      [] OTHER -> {}

\* the credential record sealed in a row
SealedCredentials(row) ==
    LET combined == Atob(row.encrypted_credentials)
    IN  JsonParse([i \in 1..(Len(combined) - 2) |-> combined[i + 1].byte])

\* C7: every session row has auth_type in {bearer, oauth2, sigv4} and a
\* credential record of the shape of that scheme, and no request is sent for
\* a session that has not.
RowsAreWellFormed ==
    /\ \A id \in DOMAIN sessions :
        /\ sessions[id].auth_type \in {"bearer", "oauth2", "sigv4"}
        /\ DOMAIN SealedCredentials(sessions[id]) = SchemeShape(sessions[id].auth_type)
    /\ \A r \in Slots :
        (FoundSession(reqs[r]) /\ reqs[r].out # << >>)
        => /\ reqs[r].row.auth_type \in {"bearer", "oauth2", "sigv4"}
           /\ DOMAIN SealedCredentials(reqs[r].row) = SchemeShape(reqs[r].row.auth_type)

(* ---------------------------------------------------------------------- *)
\* the payload lacks the endpoint or a field its scheme requires
LacksRequired(obj) ==
    LET scheme == IF "authType" \in DOMAIN obj THEN obj.authType ELSE "bearer"
        missing(f) == f \notin DOMAIN obj \/ obj[f] = ""
    IN  \/ missing("endpoint")
        \/ scheme = "bearer" /\ missing("token")
        \/ scheme = "oauth2" /\ (missing("clientId") \/ missing("clientSecret"))
        \/ scheme = "sigv4" /\ (missing("awsAccessKey") \/ missing("awsSecretKey")
                                \/ missing("awsRegion"))

\* C8: a login whose payload lacks the endpoint or a required field is
\* answered 400 with an error message, and creates no session row.
IncompleteLoginIs400 ==
    \A r \in Slots :
        (/\ reqs[r].kind = "login"
         /\ reqs[r].pc = "done"
         /\ LacksRequired(reqs[r].body.obj))
        => /\ reqs[r].reply.status = 400
           /\ "error" \in DOMAIN reqs[r].reply
           /\ reqs[r].sessionId = ""

ExpiryIsFixed ==
    /\ \A id \in DOMAIN sessions :
        /\ sessions[id].expires_at = sessions[id].created_at + 86400000
        /\ sessions[id].created_at = supplied[id].created_at
        /\ sessions[id].expires_at = supplied[id].expires_at
    /\ \A r \in Slots :
        (reqs[r].kind = "login" /\ reqs[r].reply.status = 200)
        => reqs[r].reply.expiresAt = supplied[reqs[r].sessionId].expires_at

\* a session was used after the instant of its creation and kept its expiry
ExpiryIsFixedWitness ==
    \E id \in DOMAIN sessions :
        /\ sessions[id].last_used_at > sessions[id].created_at
        /\ sessions[id].expires_at = sessions[id].created_at + 86400000

(* ---------------------------------------------------------------------- *)
\* C11: whenever the catalog answered the forwarded request, the reply to
\* the client carries the catalog's status, and for a status other than 401
\* the catalog's body, whether or not the usage row could be recorded.
UpstreamIsRelayed ==
    \A r \in Slots :
        (/\ reqs[r].kind = "proxy"
         /\ reqs[r].pc = "done"
         /\ reqs[r].response.status # 0)
        => /\ reqs[r].reply.status = reqs[r].response.status
           /\ reqs[r].response.status # 401
              => /\ Has(reqs[r].reply, "body")
                 /\ reqs[r].reply.body = reqs[r].response.body

(* ---------------------------------------------------------------------- *)
\* C12: when the token endpoint answers the exchange of an oauth2 session
\* with a status outside 2xx, the request ends with a 502 reply and the
\* exchange is its only outbound call: nothing goes to the catalog and the
\* exchange is not sent again.
ExchangeFailureAborts ==
    \A r \in Slots :
        (/\ reqs[r].kind = "proxy"
         /\ reqs[r].exchange.status # 0
         /\ ~ResponseOk(reqs[r].exchange.status))
        => /\ reqs[r].pc = "done"
           /\ reqs[r].reply.status = 502
           /\ reqs[r].out = << TokenRequest(reqs[r].credentials) >>

\* the token endpoint refused the exchange of an oauth2 session
ExchangeFailureAbortsWitness ==
    \E r \in Slots :
        /\ reqs[r].kind = "proxy"
        /\ reqs[r].row # EmptyObj
        /\ reqs[r].row.auth_type = "oauth2"
        /\ reqs[r].exchange.status = 401
        /\ reqs[r].pc = "done"

\* the positions of the token exchanges among the outbound calls of a request
TokenCalls(q) == {i \in DOMAIN q.out : q.out[i].to = "token"}

(* ---------------------------------------------------------------------- *)
\* C13: a proxied request of an oauth2 session that has its credentials
\* makes exactly one token exchange, as its first outbound call; what it
\* forwards to the catalog comes second and carries the token this exchange
\* returned. A request of another scheme makes no exchange.
OneExchangePerRequest ==
    \A r \in Slots :
        (reqs[r].kind = "proxy" /\ reqs[r].credentials # EmptyObj)
        => IF reqs[r].row.auth_type = "oauth2"
           THEN /\ TokenCalls(reqs[r]) = {1}
                /\ reqs[r].out[1] = TokenRequest(reqs[r].credentials)
                /\ \A i \in DOMAIN reqs[r].out :
                      reqs[r].out[i].to = "catalog"
                      => /\ i = 2
                         /\ ResponseOk(reqs[r].exchange.status)
                         /\ reqs[r].out[i].headers.Authorization
                               = "Bearer " \o reqs[r].exchange.access_token
           ELSE TokenCalls(reqs[r]) = {}

\* two requests of one oauth2 session each made their own exchange, got
\* different tokens and forwarded with their own
OneExchangePerRequestWitness ==
    \E r, q \in Slots :
        /\ r # q
        /\ reqs[r].kind = "proxy" /\ reqs[q].kind = "proxy"
        /\ reqs[r].hdr = reqs[q].hdr
        /\ Len(reqs[r].out) = 2 /\ Len(reqs[q].out) = 2
        /\ reqs[r].out[1].to = "token" /\ reqs[q].out[1].to = "token"
        /\ reqs[r].exchange # reqs[q].exchange

(* ---------------------------------------------------------------------- *)
\* C14: a request of a bearer session has at most one outbound call, the
\* request forwarded to the catalog, and that request carries Authorization
\* 'Bearer ' followed by the token the login of the session supplied.
BearerCarriesLoginToken ==
    \A r \in Slots :
        (/\ reqs[r].kind = "proxy"
         /\ reqs[r].row # EmptyObj
         /\ reqs[r].row.auth_type = "bearer")
        => /\ Len(reqs[r].out) <= 1
           /\ \A i \in DOMAIN reqs[r].out :
                 /\ reqs[r].out[i].to = "catalog"
                 /\ reqs[r].out[i].headers.Authorization
                       = "Bearer " \o supplied[reqs[r].hdr].credentials.token
           /\ reqs[r].pc = "awaitUpstream" => Len(reqs[r].out) = 1

\* with sessions for the tokens abc123 and xyz789 in the store, a request
\* of the first was forwarded with 'Bearer abc123'
BearerCarriesLoginTokenWitness ==
    \E r \in Slots :
        /\ \E id \in DOMAIN sessions : supplied[id].credentials = [token |-> "xyz789"]
        /\ reqs[r].kind = "proxy"
        /\ reqs[r].row # EmptyObj
        /\ reqs[r].row.auth_type = "bearer"
        /\ Len(reqs[r].out) = 1
        /\ reqs[r].out[1].headers.Authorization = "Bearer abc123"
        /\ reqs[r].out[1].url = "https://catalog.example/v1/namespaces"

(* ---------------------------------------------------------------------- *)
\* C15: a step of a proxy handler (arrival, key load, decryption and auth
\* resolution, answer of the token endpoint, answer of the catalog) creates
\* and deletes no session row, leaves every row of another session as it
\* is, and changes at most last_used_at in the row of the session it looked
\* up, and that only when the lookup found this session.
ProxyTouchesOnlyLastUsed ==
    [][\A r \in Slots :
          (reqs'[r] # reqs[r] /\ reqs'[r].kind = "proxy")
          => /\ DOMAIN sessions' = DOMAIN sessions
             /\ \A id \in DOMAIN sessions :
                   /\ id # reqs'[r].hdr => sessions'[id] = sessions[id]
                   /\ [sessions'[id] EXCEPT
                          !.last_used_at = sessions[id].last_used_at]
                         = sessions[id]
             /\ sessions' # sessions => reqs'[r].seen = "live"]_vars

\* with two sessions in the store, a request of one of them was used after
\* the session's creation and failed at the token endpoint
ProxyTouchesOnlyLastUsedWitness ==
    \E r \in Slots :
        /\ reqs[r].kind = "proxy"
        /\ reqs[r].pc = "done"
        /\ reqs[r].reply.status = 502
        /\ reqs[r].exchange.status = 401
        /\ reqs[r].hdr \in DOMAIN sessions
        /\ sessions[reqs[r].hdr].last_used_at > sessions[reqs[r].hdr].created_at
        /\ \E id \in DOMAIN sessions : id # reqs[r].hdr

\* the encryption keys generated so far and the secret fields of the
\* credentials of every login so far
SecretStrings ==
    {GenerateKey(n) : n \in 1..nextKey}
    \cup UNION {{supplied[id].credentials[f] :
                    f \in DOMAIN supplied[id].credentials
                          \cap {"token", "clientSecret", "awsSecretKey"}} :
                id \in DOMAIN supplied}

\* the reply has only the fields a client may receive and none of its texts
\* contains a secret
RevealsNothing(reply) ==
    /\ DOMAIN reply \subseteq {"status", "sessionId", "expiresAt", "success",
                               "error", "message", "body"}
    /\ \A f \in DOMAIN reply \cap {"sessionId", "error", "message", "body"} :
          \A secret \in SecretStrings : ~Includes(reply[f], secret)

(* ---------------------------------------------------------------------- *)
\* C16: no reply of the login, logout or proxy handler holds a credential
\* record, a secret credential field or an encryption key: a reply has only
\* a status, a session id, expiresAt, a success flag, error texts and the
\* relayed body. What is derived from credentials leaves the worker only in
\* calls to the session's own token endpoint or catalog.
RepliesRevealNothing ==
    \A r \in Slots :
        reqs[r].kind # "idle"
        => /\ RevealsNothing(reqs[r].reply)
           /\ reqs[r].kind = "proxy"
              => \A i \in DOMAIN reqs[r].out :
                    \/ /\ reqs[r].out[i].to = "token"
                       /\ reqs[r].out[i].url = reqs[r].credentials.oauthEndpoint
                    \/ /\ reqs[r].out[i].to = "catalog"
                       /\ reqs[r].out[i].url = TargetUrl(reqs[r].row)

\* a login was answered 200 while another handler, holding decrypted
\* credentials and the key, answered with a proxy error
RepliesRevealNothingWitness ==
    \E r, q \in Slots :
        /\ reqs[r].kind = "login"
        /\ reqs[r].reply.status = 200
        /\ reqs[q].kind = "proxy"
        /\ reqs[q].credentials # EmptyObj
        /\ reqs[q].key # ""
        /\ reqs[q].reply.status = 502

\* the reply a proxy call owes to its own outbound calls: the catalog's
\* answer when there is one, a 502 when its exchange or its forward failed
OwnResult(q) ==
    IF q.response.status # 0
    THEN q.reply = [status |-> q.response.status, body |-> q.response.body]
    ELSE /\ q.reply.status = 502
         /\ \/ q.response # NoReply
            \/ q.exchange # NoReply /\ ~ResponseOk(q.exchange.status)

(* ---------------------------------------------------------------------- *)
\* C17: when two proxy calls of the same session, found live and with a
\* supported scheme by both, have both ended and the session was neither
\* logged out nor expired, each has answered with the result of its own
\* outbound calls, and both were forwarded unless their own exchange failed.
ConcurrentCallsIndependent ==
    \A r, q \in Slots :
        (/\ r # q
         /\ reqs[r].kind = "proxy" /\ reqs[q].kind = "proxy"
         /\ reqs[r].hdr = reqs[q].hdr
         /\ reqs[r].seen = "live" /\ reqs[q].seen = "live"
         /\ reqs[r].pc = "done" /\ reqs[q].pc = "done"
         /\ reqs[r].hdr \notin loggedOut
         /\ SessionState(reqs[r].hdr) = "live"
         /\ AuthBranch(reqs[r].row.auth_type) # "unsupported")
        => OwnResult(reqs[r]) /\ OwnResult(reqs[q])

\* the positions of the catalog requests among the outbound calls of a request
CatalogCalls(q) == {i \in DOMAIN q.out : q.out[i].to = "catalog"}

(* ---------------------------------------------------------------------- *)
\* C18: a proxy request sends at most one request to the catalog, while it
\* runs and after it has replied, whatever the catalog did with it: answer
\* 2xx, answer with an error status, or not answer at all.
AtMostOneCatalogCall ==
    \A r \in Slots :
        reqs[r].kind = "proxy"
        => /\ Cardinality(CatalogCalls(reqs[r])) <= 1
           /\ reqs[r].response # NoReply
              => /\ reqs[r].pc = "done"
                 /\ Cardinality(CatalogCalls(reqs[r])) = 1

\* a request whose forward was rejected and one whose forward was answered
\* 500 have both replied
AtMostOneCatalogCallWitness ==
    \E r, q \in Slots :
        /\ reqs[r].kind = "proxy" /\ reqs[q].kind = "proxy"
        /\ reqs[r].pc = "done" /\ reqs[q].pc = "done"
        /\ reqs[r].response = [status |-> 0, body |-> ""]
        /\ reqs[r].reply.status = 502
        /\ reqs[q].response.status = 500

(* ---------------------------------------------------------------------- *)
\* C19: every proxy request that has not replied yet eventually replies,
\* also when the token endpoint or the catalog never answers its call.
EveryProxyReplies ==
    \A r \in Slots :
        (reqs[r].kind = "proxy" /\ reqs[r].pc # "done")
        ~> (reqs[r].pc = "done")

(* ---------------------------------------------------------------------- *)
\* C20: when the catalog answers the forwarded request 401 and the proxy
\* replies 401, the body of the reply does not contain the body the catalog
\* sent with its 401.
Upstream401BodyWithheld ==
    \A r \in Slots :
        (/\ reqs[r].kind = "proxy"
         /\ reqs[r].pc = "done"
         /\ reqs[r].response.status = 401
         /\ reqs[r].reply.status = 401)
        => ~(/\ Has(reqs[r].reply, "body")
             /\ Includes(reqs[r].reply.body, reqs[r].response.body))

\* every session id a login can generate
SessionIds == {GenerateSessionId(n) : n \in 1..MaxSessions}

(* ---------------------------------------------------------------------- *)
\* C21: a session row whose expires_at has passed is eventually no longer
\* in the sessions table, also when nobody logs the session out.
ExpiredRowsAreDeleted ==
    \A id \in SessionIds :
        (id \in DOMAIN sessions /\ sessions[id].expires_at <= now)
        ~> (id \notin DOMAIN sessions)

(* ---------------------------------------------------------------------- *)
(* Signature Version 4 as its specification defines it                     *)
(* ---------------------------------------------------------------------- *)

\* the characters of the model in the order of their code points
CodePointOrder ==
    " !%&'()*+-./" \o Digits \o ":=?" \o UpperCase \o "_" \o LowerCase \o "~"

\* a < b in the order of code points
RECURSIVE CodePointLess(_, _)
CodePointLess(a, b) ==
    IF a = "" THEN b # ""
    ELSE IF b = "" THEN FALSE
    ELSE IF CharAt(a, 1) # CharAt(b, 1)
    THEN IndexOf(CodePointOrder, CharAt(a, 1)) < IndexOf(CodePointOrder, CharAt(b, 1))
    ELSE CodePointLess(SubSeq(a, 2, Len(a)), SubSeq(b, 2, Len(b)))

\* UriEncode of the specification: everything but A-Z a-z 0-9 - _ . ~
ReferenceUriEncode(s) == PercentEncode(s, "-_.~")

\* the encoded parameters sorted by name, then by value, in code point order
RECURSIVE ReferenceSort(_)
ReferenceSort(entries) ==
    IF Len(entries) <= 1 THEN entries
    ELSE LET rest == ReferenceSort(Tail(entries))
             e == Head(entries)
             Before(x) == \/ CodePointLess(x[1], e[1])
                          \/ x[1] = e[1] /\ CodePointLess(x[2], e[2])
         IN  SelectSeq(rest, Before) \o << e >>
                 \o SelectSeq(rest, LAMBDA x : ~Before(x))

ReferenceCanonicalQuery(search) ==
    LET params == URLSearchParams(search)
        encoded == [i \in 1..Len(params) |->
                       << ReferenceUriEncode(params[i][1]),
                          ReferenceUriEncode(params[i][2]) >>]
        sorted == ReferenceSort(encoded)
    IN  Join([i \in 1..Len(sorted) |-> sorted[i][1] \o "=" \o sorted[i][2]], "&")

\* the canonical URI of a service other than S3: the path of the URL with
\* every segment encoded once more
ReferenceCanonicalUri(pathname) == PercentEncode(pathname, "-_.~/")

\* the Authorization header of a reference signer that signs host,
\* x-amz-content-sha256 and x-amz-date
ReferenceAuthorization(method, requestUrl, credentials, requestBody, t) ==
    LET url == ParseUrl(requestUrl)
        payloadHash == sha256(requestBody)
        signedHeaders == "host;x-amz-content-sha256;x-amz-date"
        canonicalRequest ==
            << method, ReferenceCanonicalUri(url.pathname),
               ReferenceCanonicalQuery(url.search),
               << << "host", url.host >>,
                  << "x-amz-content-sha256", payloadHash >>,
                  << "x-amz-date", AmzDate(t) >> >>,
               signedHeaders, payloadHash >>
        credentialScope == << DateStamp(t), credentials.awsRegion,
                              credentials.awsService, "aws4_request" >>
        stringToSign == << "AWS4-HMAC-SHA256", AmzDate(t), credentialScope,
                           sha256(canonicalRequest) >>
        kDate == hmac("AWS4" \o credentials.awsSecretKey, DateStamp(t))
        kRegion == hmac(kDate, credentials.awsRegion)
        kService == hmac(kRegion, credentials.awsService)
        kSigning == hmac(kService, "aws4_request")
    IN  [algorithm |-> "AWS4-HMAC-SHA256",
         Credential |-> << credentials.awsAccessKey >> \o credentialScope,
         SignedHeaders |-> signedHeaders,
         Signature |-> hmac(kSigning, stringToSign)]

(* ---------------------------------------------------------------------- *)
\* C22: signing the same request with the same credentials at the same
\* instant twice gives the same headers, and the Authorization header is
\* the one a reference Signature Version 4 signer computes for that request.
SigV4MatchesReference ==
    /\ calc.kind = "signed twice"
       => calc.request.headers
             = signAwsRequest(calc.method, calc.request.url, calc.credentials,
                              calc.request.body, calc.t)
    /\ calc.kind \in {"signed", "signed twice"}
       => calc.request.headers.Authorization
             = ReferenceAuthorization(calc.method, calc.request.url,
                                      calc.credentials, calc.request.body, calc.t)

\* the signer and the reference agree on a request with plain path and query
SigV4AgreesOnPlainRequests ==
    (/\ calc.kind \in {"signed", "signed twice"}
     /\ calc.pathname = "/api/iceberg/v1/namespaces"
     /\ calc.search \in {"", "?pageSize=10", "?pageToken=t1&pageSize=10"})
    => calc.request.headers.Authorization
          = ReferenceAuthorization(calc.method, calc.request.url,
                                   calc.credentials, calc.request.body, calc.t)

(* ---------------------------------------------------------------------- *)
\* C23: decryption succeeds only on a ciphertext that encryptToken made
\* under the same key, unaltered, and then returns the plaintext that was
\* encrypted; a ciphertext with any byte altered, or opened under another
\* key, fails to decrypt.
TamperedCiphertextFails ==
    calc.kind = "opened"
    => /\ calc.result.ok
          => /\ calc.altered = 0
             /\ calc.with = calc.key
             /\ calc.stored = encryptToken(calc.token, calc.key, calc.iv)
             /\ calc.result.data = calc.token
       /\ (calc.altered # 0 \/ calc.with # calc.key) => ~calc.result.ok

TamperedCiphertextFailsWitness ==
    /\ calc.kind = "opened"
    /\ calc.altered = 2
    /\ calc.with = calc.key
    /\ ~calc.result.ok

(* ---------------------------------------------------------------------- *)
\* the canonical request under the signature of an Authorization header
SignedCanonicalRequest(authorization) == authorization.Signature.hmac[2][4].sha256

\* C27: the signature of a sigv4 request covers exactly the method, the
\* URL and the body that are sent to the catalog: the signed method, path,
\* query, host and payload hash are those of the outgoing request, whose
\* URL is the endpoint followed by the inbound path and query and whose
\* body is the inbound body, empty for GET and HEAD.
SignatureCoversWhatIsSent ==
    calc.kind \in {"signed", "signed twice"}
    => LET request == calc.request
           url == ParseUrl(request.url)
           canonical == SignedCanonicalRequest(request.headers.Authorization)
       IN  /\ request.method = calc.method
           /\ request.url = calc.endpoint \o StripPrefix(calc.pathname) \o calc.search
           /\ request.body = IF calc.method \in {"GET", "HEAD"} THEN "" ELSE calc.body
           /\ canonical[1] = request.method
           /\ canonical[2] = url.pathname
           /\ canonical[3] = CanonicalQueryString(url.search)
           /\ canonical[4][1] = << "host", url.host >>
           /\ canonical[6] = sha256(request.body)
           /\ request.headers.xAmzContentSha256 = sha256(request.body)
           /\ request.headers.Host = url.host

SignatureCoversWhatIsSentWitness ==
    /\ calc.kind = "signed"
    /\ calc.method = "POST"
    /\ calc.body = "{}"
    /\ calc.search = "?pageToken=t1&pageSize=10"
    /\ calc.request.body = "{}"
    /\ SignedCanonicalRequest(calc.request.headers.Authorization)[6] = sha256("{}")

(* ---------------------------------------------------------------------- *)
\* the key a stored ciphertext was sealed under, and its nonce
SealingKey(row) ==
    LET combined == Atob(row.encrypted_credentials)
    IN  combined[Len(combined)].tag[1]

NonceOf(row) == Head(Atob(row.encrypted_credentials))

\* C24: two encryptions never give the same stored ciphertext, each has a
\* nonce of its own, and when both sealed the same credential record under
\* the same key, both decrypt under that key to that record.
FreshNoncePerEncryption ==
    \A a \in DOMAIN sessions : \A b \in DOMAIN sessions \ {a} :
        /\ sessions[a].encrypted_credentials # sessions[b].encrypted_credentials
        /\ NonceOf(sessions[a]) # NonceOf(sessions[b])
        /\ (/\ supplied[a].credentials = supplied[b].credentials
            /\ SealingKey(sessions[a]) = SealingKey(sessions[b]))
           => LET key == SealingKey(sessions[a])
                  da == decryptToken(sessions[a].encrypted_credentials, key)
                  db == decryptToken(sessions[b].encrypted_credentials, key)
              IN  /\ da.ok /\ db.ok
                  /\ da.data = db.data
                  /\ JsonParse(da.data) = supplied[a].credentials

\* two logins stored the same credential record under the same key
FreshNoncePerEncryptionWitness ==
    \E a \in DOMAIN sessions : \E b \in DOMAIN sessions \ {a} :
        /\ supplied[a].credentials = supplied[b].credentials
        /\ SealingKey(sessions[a]) = SealingKey(sessions[b])
        /\ sessions[a].encrypted_credentials # sessions[b].encrypted_credentials

(* ---------------------------------------------------------------------- *)
\* C25: a session id that is invalid (forged and never created, expired,
\* or deleted by logout) is invalid after every step: no step re-creates
\* its row or moves its expiry into the future, and a proxy call that
\* arrives with it finds no row. The ids are those logins have created and
\* the forged one; crypto.randomUUID is taken never to return an id a
\* client presented before.
InvalidStaysInvalid ==
    [][\A id \in DOMAIN supplied \cup {ForgedId} :
        ~SelectSession(sessions, id, now)
        => /\ ~SelectSession(sessions', id, now')
           /\ \A r \in Slots :
                (Arrives(r, "proxy") /\ reqs'[r].hdr = id)
                => /\ reqs'[r].row = EmptyObj
                   /\ reqs'[r].reply = InvalidSessionReply]_vars

\* a proxy call found its session, a logout then deleted the row, and the
\* UPDATE of the proxy call landed after the DELETE
InvalidStaysInvalidWitness ==
    \E r \in Slots : \E q \in Slots :
        /\ reqs[r].kind = "logout"
        /\ q \in reqs[r].overtook
        /\ reqs[q].kind = "proxy"
        /\ reqs[q].hdr = reqs[r].hdr
        /\ reqs[q].credentials # EmptyObj
        /\ reqs[q].hdr \notin DOMAIN sessions

(* ---------------------------------------------------------------------- *)
\* the handler in slot r completes a successful getSession in this step
GetSucceeds(r) ==
    /\ reqs[r].kind = "proxy"
    /\ reqs[r].pc = "decrypt"
    /\ reqs'[r].pc # "decrypt"
    /\ decryptToken(reqs[r].row.encrypted_credentials, reqs[r].key).ok

\* C26: a row is created with last_used_at = created_at = now; a successful
\* get sets last_used_at of the row of its id to now and changes no other
\* row; a get that finds no row (unknown or expired id) leaves the table
\* as it is; last_used_at changes in no other way, and created_at <=
\* last_used_at in every row.
LastUsedFollowsGets ==
    [][/\ \A id \in DOMAIN sessions' \ DOMAIN sessions :
            /\ sessions'[id].created_at = now
            /\ sessions'[id].last_used_at = sessions'[id].created_at
       /\ \A r \in Slots :
            /\ GetSucceeds(r)
               => /\ DOMAIN sessions' = DOMAIN sessions
                  /\ \A id \in DOMAIN sessions :
                        sessions'[id] =
                            IF id = reqs[r].hdr
                            THEN [sessions[id] EXCEPT !.last_used_at = now]
                            ELSE sessions[id]
            /\ (Arrives(r, "proxy") /\ reqs'[r].row = EmptyObj)
               => sessions' = sessions
       /\ \A id \in DOMAIN sessions \cap DOMAIN sessions' :
            sessions'[id].last_used_at # sessions[id].last_used_at
            => \E r \in Slots : GetSucceeds(r) /\ reqs[r].hdr = id
       /\ \A id \in DOMAIN sessions' :
            sessions'[id].created_at <= sessions'[id].last_used_at]_vars

\* of two sessions, one was used after the instant of its creation and the
\* other keeps the last_used_at of its creation
LastUsedFollowsGetsWitness ==
    \E a \in DOMAIN sessions : \E b \in DOMAIN sessions \ {a} :
        /\ sessions[a].last_used_at > sessions[a].created_at
        /\ sessions[a].last_used_at = now
        /\ sessions[b].last_used_at = sessions[b].created_at

(* ---------------------------------------------------------------------- *)
\* the reports onApiCall received for call i
ReportsOf(i) == SelectSeq(client.reported, LAMBDA e : e.call = i)

\* the requests sent for call i
RequestsOf(i) == SelectSeq(client.sent, LAMBDA e : e.call = i)

\* C28: every request made through fetchRaw is reported to onApiCall
\* exactly once when it has been answered: with 'success' for an ok
\* response, with 'error' for a response that is not ok or a network
\* failure; a request that awaits its answer has not been reported.
EachCallReportedOnce ==
    \A i \in 1..Len(client.calls) :
        IF client.calls[i].pc = "done"
        THEN ReportsOf(i) =
                << [call |-> i, endpoint |-> client.calls[i].endpoint,
                    status |-> IF IsOk(client.calls[i].answer)
                               THEN "success" ELSE "error"] >>
        ELSE ReportsOf(i) = << >>

(* ---------------------------------------------------------------------- *)
\* C29: a call answered 401 has cleared sessionStorage and set the location
\* to the login page, was sent once and reported once, as an error; and
\* the session is discarded for no other reason than a 401.
Upon401SessionIsDiscarded ==
    /\ \A i \in 1..Len(client.calls) :
        (client.calls[i].pc = "done" /\ client.calls[i].answer.status = 401)
        => /\ client.sessionStorage = ""
           /\ client.location = "/"
           /\ Len(RequestsOf(i)) = 1
           /\ ReportsOf(i) = << [call |-> i,
                                 endpoint |-> client.calls[i].endpoint,
                                 status |-> "error"] >>
    /\ (client.sessionStorage = "" \/ client.location = "/")
       => \E i \in 1..Len(client.calls) :
            client.calls[i].pc = "done" /\ client.calls[i].answer.status = 401

\* a call of the page that awaited the config load was answered 401
Upon401SessionIsDiscardedWitness ==
    \E i \in 1..Len(client.calls) :
        /\ client.calls[i].by = "fetch"
        /\ client.calls[i].waited
        /\ client.calls[i].pc = "done"
        /\ client.calls[i].answer.status = 401
        /\ client.sessionStorage = ""

(* ---------------------------------------------------------------------- *)
\* the calls by which loadConfig asked for /v1/config
ConfigLoads == {i \in 1..Len(client.calls) : client.calls[i].by = "loadConfig"}

\* C30: one client instance loads /v1/config through ensureConfigLoaded at
\* most once, whatever the answer to the load, and every request of
\* fetch left when the configPromise had settled: none is sent while the
\* load is pending or not yet started.
ConfigLoadedAtMostOnce ==
    /\ Cardinality(ConfigLoads) <= 1
    /\ Len(SelectSeq(client.sent, LAMBDA e : client.calls[e.call].by = "loadConfig")) <= 1
    /\ \A k \in 1..Len(client.sent) :
        client.calls[client.sent[k].call].by = "fetch"
        => /\ client.sent[k].settled = "settled"
           /\ \E j \in 1..(k - 1) :
                /\ client.sent[j].call \in ConfigLoads
                /\ client.calls[client.sent[j].call].pc = "done"
    /\ \A i \in 1..Len(client.calls) :
        (client.calls[i].by = "fetch" /\ client.configPromise # "settled")
        => client.calls[i].pc = "awaitConfig" /\ RequestsOf(i) = << >>

\* two calls awaited the same load, which failed, and a third came after it:
\* all three were sent and there was one load
ConfigLoadedAtMostOnceWitness ==
    /\ Cardinality(ConfigLoads) = 1
    /\ \E i \in ConfigLoads : ~Resolves(client.calls[i].answer)
                              /\ client.calls[i].pc = "done"
    /\ Cardinality({i \in 1..Len(client.calls) :
            /\ client.calls[i].by = "fetch"
            /\ client.calls[i].waited
            /\ RequestsOf(i) # << >>}) = 2
    /\ \E i \in 1..Len(client.calls) :
            /\ client.calls[i].by = "fetch"
            /\ ~client.calls[i].waited
            /\ RequestsOf(i) # << >>

====
